---- MODULE Spec2Model ----
(***************************************************************************)
(* Model of the MA GIS USE_CODE analyzer (src/app.py): analyze_gdb and      *)
(* perform_spatial_analysis, with the process-wide processing_progress,    *)
(* and the cleaned dataset that upload_file derives from their result.     *)
(*                                                                         *)
(* Strings are sequences of one-character strings, so that str(), the      *)
(* [:3] truncation, lower() and the substring test are computed.  A float  *)
(* quotient a / b is kept exact as the pair [num |-> a, den |-> b].         *)
(* Geometries are points with integer coordinates; g.buffer(r) meets a     *)
(* point h exactly when the distance from g to h is at most r.             *)
(***************************************************************************)
EXTENDS Integers, Sequences, FiniteSets, TLC

VARIABLES
    processing_progress,  \* the global dict of app.py:29 (current, total, status)
    phase,                \* "idle" | "spatial" | "returned" | "written" | "failed"
    gdb,                  \* the geodatabase of the run in flight (or of the last run)
    csv,                  \* property_classification_codes.csv as read by that run
    non_matching_sample,  \* the index labels of the rows handed to the spatial analysis
    all_parcels_gdf,      \* the joined table of perform_spatial_analysis
    count,                \* the loop counter of perform_spatial_analysis
    results,              \* the list `results` of perform_spatial_analysis
    outcomes,             \* what each finished loop iteration did, in order
    ret,                  \* what analyze_gdb returned or raised
    cleaned_df            \* the table upload_file saves as cleaned_usecodes_*.csv

vars ==
    <<processing_progress, phase, gdb, csv, non_matching_sample, all_parcels_gdf,
      count, results, outcomes, ret, cleaned_df>>

(***************************************************************************)
(* Bounds of the model.                                                    *)
(***************************************************************************)
MaxAssess == 3   \* most assessment records in a geodatabase

(***************************************************************************)
(* Values and strings.                                                     *)
(***************************************************************************)
\* A cell of a table: a Python int or a Python str.
IntV(n) == [t |-> "int", n |-> n, s |-> <<>>]
StrV(s) == [t |-> "str", n |-> 0, s |-> s]

DigitChar == <<"0", "1", "2", "3", "4", "5", "6", "7", "8", "9">>

RECURSIVE IntToStr(_)
IntToStr(n) ==
    IF n < 10 THEN <<DigitChar[n + 1]>>
    ELSE IntToStr(n \div 10) \o <<DigitChar[(n % 10) + 1]>>

\* str(v), and Series.astype(str) on one cell
Str(v) == IF v.t = "int" THEN IntToStr(v.n) ELSE v.s

\* s[:3]
Truncate3(s) == IF Len(s) <= 3 THEN s ELSE SubSeq(s, 1, 3)

LowerMap ==
    ("A" :> "a") @@ ("C" :> "c") @@ ("E" :> "e") @@ ("L" :> "l") @@
    ("M" :> "m") @@ ("P" :> "p") @@ ("R" :> "r") @@ ("S" :> "s") @@
    ("T" :> "t") @@ ("X" :> "x")

\* s.lower()
Lower(s) == [k \in DOMAIN s |-> IF s[k] \in DOMAIN LowerMap THEN LowerMap[s[k]] ELSE s[k]]

\* sub in s
Contains(sub, s) ==
    \E k \in 0..(Len(s) - Len(sub)) : SubSeq(s, k + 1, k + Len(sub)) = sub

SetMax(S) == CHOOSE m \in S : \A k \in S : k <= m
SetMin(S) == CHOOSE m \in S : \A k \in S : m <= k

(***************************************************************************)
(* load_classification_codes (app.py:36-53).                               *)
(***************************************************************************)
\* dict(zip(codes.astype(str), descriptions)): a later row overwrites an
\* earlier one with the same key; {} when the file cannot be read.
load_classification_codes(c) ==
    IF ~c.readable THEN <<>>
    ELSE LET keys == {Str(c.rows[k].code) : k \in DOMAIN c.rows}
         IN  [key \in keys |->
                 c.rows[SetMax({k \in DOMAIN c.rows : Str(c.rows[k].code) = key})].desc]

(***************************************************************************)
(* analyze_gdb: layers, matching (app.py:85-127).                          *)
(***************************************************************************)
NoLayer == <<>>   \* None

S_assess == <<"a", "s", "s", "e", "s", "s">>
S_taxpar == <<"t", "a", "x", "p", "a", "r">>
S_parcel == <<"p", "a", "r", "c", "e", "l">>

\* the loop of app.py:97-101 keeps the last layer name that matches
assessment_layer(layers) ==
    LET m == {k \in DOMAIN layers : Contains(S_assess, Lower(layers[k]))}
    IN  IF m = {} THEN NoLayer ELSE layers[SetMax(m)]

\* only 'parcel' is looked for
parcel_layer_no_taxpar(layers) ==
    LET m == {k \in DOMAIN layers : Contains(S_parcel, Lower(layers[k]))}
    IN  IF m = {} THEN NoLayer ELSE layers[SetMax(m)]

parcel_layer(layers) ==
    LET m == {k \in DOMAIN layers :
                 \/ Contains(S_taxpar, Lower(layers[k]))
                 \/ Contains(S_parcel, Lower(layers[k]))}
    IN  IF m = {} THEN NoLayer ELSE layers[SetMax(m)]

valid_codes(c) == DOMAIN load_classification_codes(c)

\* the code compared without the truncation
use_code_untruncated(row) == Str(row.USE_CODE)

\* assessment_df['USE_CODE'].astype(str).str[:3]   (app.py:122)
use_code(row) == Truncate3(Str(row.USE_CODE))

\* assessment_df after app.py:122
assessment_df(g) ==
    [k \in DOMAIN g.assess |->
        [LOC_ID |-> g.assess[k].LOC_ID, PROP_ID |-> g.assess[k].PROP_ID,
         USE_CODE |-> use_code(g.assess[k])]]

total_properties(g) == Len(g.assess)

\* the index labels of non_matching_df = assessment_df[~matching_mask], in order
non_matching_df(g, c) ==
    LET adf   == assessment_df(g)
        valid == valid_codes(c)
    IN  SelectSeq([k \in 1..Len(adf) |-> k], LAMBDA k : adf[k].USE_CODE \notin valid)

non_matching_count(g, c) == Len(non_matching_df(g, c))

(***************************************************************************)
(* perform_spatial_analysis: the join (app.py:163-170).                    *)
(***************************************************************************)
\* the rows parcels_gdf.merge(assessment_df, on='LOC_ID', how='inner') gives for
\* one parcel row: one per assessment row with the same stringified key
MergeRow(pr, adf) ==
    LET key == Str(pr.LOC_ID)
        idx == SelectSeq([k \in 1..Len(adf) |-> k], LAMBDA k : Str(adf[k].LOC_ID) = key)
    IN  [j \in 1..Len(idx) |->
            [LOC_ID   |-> key,
             geometry |-> pr.geometry,
             PROP_ID  |-> adf[idx[j]].PROP_ID,
             USE_CODE |-> Truncate3(adf[idx[j]].USE_CODE)]]

RECURSIVE Merge(_, _, _)
Merge(prs, adf, p) ==
    IF p > Len(prs) THEN <<>>
    ELSE MergeRow(prs[p], adf) \o Merge(prs, adf, p + 1)

\* all_parcels_gdf: the order of the left (parcel) keys is kept
SpatialJoin(g) == Merge(g.parcels.rows, assessment_df(g), 1)

\* parcels_gdf['LOC_ID'] raises KeyError when the parcel layer has no such column;
\* the except of app.py:303 then returns []
JoinFails(g) == ~g.parcels.has_loc_id

(***************************************************************************)
(* perform_spatial_analysis: one property (app.py:198-294).                *)
(***************************************************************************)
BufferRadius == 100
CoordLimit == 1000
LatMin == 41
LatMax == 43
LngMin == -74
LngMax == -69

Abs(n) == IF n < 0 THEN -n ELSE n

\* app.py:215
NeedsTransform(x, y) == Abs(x) > CoordLimit \/ Abs(y) > CoordLimit

\* app.py:241
InMassachusetts(lat, lng) ==
    LatMin <= lat /\ lat <= LatMax /\ LngMin <= lng /\ lng <= LngMax

\* h intersects g.buffer(r); a missing or empty geometry intersects nothing
Intersects(h, g, r) ==
    /\ h.kind = "point"
    /\ (h.x - g.x) * (h.x - g.x) + (h.y - g.y) * (h.y - g.y) <= r * r

\* the exclusion by object identity: only the row the geometry was taken from
nearby_parcels_identity(all, g, key) ==
    LET first == SetMin({k \in DOMAIN all : all[k].LOC_ID = key})
        idx   == SelectSeq([k \in 1..Len(all) |-> k],
                           LAMBDA k : Intersects(all[k].geometry, g, BufferRadius)
                                      /\ k # first)
    IN  [k \in 1..Len(idx) |-> all[idx[k]]]

\* app.py:250-254
nearby_parcels(all, g, key) ==
    SelectSeq(all, LAMBDA row : Intersects(row.geometry, g, BufferRadius)
                                /\ row.LOC_ID # key)

\* app.py:260
nearby_valid_codes(nearby, valid) ==
    SelectSeq(nearby, LAMBDA row : row.USE_CODE \in valid)

\* Counter(codes): the pairs <<code, count>> in the order of first insertion
RECURSIVE Counter(_)
Counter(codes) ==
    IF codes = <<>> THEN <<>>
    ELSE LET init == Counter(SubSeq(codes, 1, Len(codes) - 1))
             c    == codes[Len(codes)]
             at   == {k \in DOMAIN init : init[k][1] = c}
         IN  IF at = {} THEN Append(init, <<c, 1>>)
             ELSE [k \in DOMAIN init |->
                     IF k \in at THEN <<c, init[k][2] + 1>> ELSE init[k]]

\* the last maximal item instead of the first
most_common_last(counter) ==
    IF counter = <<>> THEN <<>>
    ELSE LET best == SetMax({k \in DOMAIN counter :
                                \A j \in DOMAIN counter : counter[j][2] <= counter[k][2]})
         IN  <<counter[best]>>

\* Counter.most_common(1): max(items, key=count), the first maximal item
most_common_1(counter) ==
    IF counter = <<>> THEN <<>>
    ELSE LET best == SetMin({k \in DOMAIN counter :
                                \A j \in DOMAIN counter : counter[j][2] <= counter[k][2]})
         IN  <<counter[best]>>

Skip(why) == [kind |-> why, rec |-> <<>>]

\* codes_dict.get(code, 'Unknown')
Description(codes_dict, code) ==
    IF code \in DOMAIN codes_dict THEN codes_dict[code] ELSE "Unknown"

\* the vote over every neighbour, valid code or not
Vote_unfiltered(row, nearby, valid, codes_dict, lat, lng, nres) ==
    LET most == most_common_1(Counter([k \in DOMAIN nearby |-> nearby[k].USE_CODE]))
    IN  [kind |-> "emit",
         rec  |-> [id             |-> nres,
                   prop_id        |-> Str(row.PROP_ID),
                   loc_id         |-> Str(row.LOC_ID),
                   current_code   |-> row.USE_CODE,
                   suggested_code |-> most[1][1],
                   confidence     |-> [num |-> most[1][2], den |-> Len(nearby)],
                   description    |-> Description(codes_dict, most[1][1]),
                   lat            |-> lat,
                   lng            |-> lng,
                   nearby_count   |-> Len(nearby)]]

\* app.py:259-290
Vote(row, nearby, valid, codes_dict, lat, lng, nres) ==
    LET nv   == nearby_valid_codes(nearby, valid)
        most == most_common_1(Counter([k \in DOMAIN nv |-> nv[k].USE_CODE]))
    IN  IF Len(nv) = 0 THEN Skip("no_valid_neighbors")
        ELSE IF most = <<>> THEN Skip("no_most_common")
        ELSE IF most[1][1] \notin valid THEN Skip("invalid_suggestion")
        ELSE [kind |-> "emit",
              rec  |-> [id             |-> nres,
                        prop_id        |-> Str(row.PROP_ID),
                        loc_id         |-> Str(row.LOC_ID),
                        current_code   |-> row.USE_CODE,
                        suggested_code |-> most[1][1],
                        confidence     |-> [num |-> most[1][2], den |-> Len(nv)],
                        description    |-> Description(codes_dict, most[1][1]),
                        lat            |-> lat,
                        lng            |-> lng,
                        nearby_count   |-> Len(nearby)]]

\* app.py:248-257, then the vote
Neighbors(row, all, g, valid, codes_dict, lat, lng, nres) ==
    LET nearby == nearby_parcels(all, g, Str(row.LOC_ID))
    IN  IF Len(nearby) = 0 THEN Skip("no_neighbors")
        ELSE Vote(row, nearby, valid, codes_dict, lat, lng, nres)

Rejected(why) == [ok |-> FALSE, why |-> why, lat |-> 0, lng |-> 0]

\* app.py:212-238: the centroid as (lat, lng); g.wgs is what to_crs('EPSG:4326')
\* gives for the centroid (g.wgs.ok is FALSE when it raises)
Coordinates(g, crs_known) ==
    IF NeedsTransform(g.x, g.y)
    THEN IF ~crs_known THEN Rejected("no_crs")
         ELSE IF ~g.wgs.ok THEN Rejected("transform_error")
         ELSE [ok |-> TRUE, why |-> "", lat |-> g.wgs.lat, lng |-> g.wgs.lng]
    ELSE [ok |-> TRUE, why |-> "", lat |-> g.y, lng |-> g.x]

\* the coordinates taken without the check of the bounding box
Normalize_unchecked(g, crs_known) == Coordinates(g, crs_known)

\* app.py:207-246
Normalize(g, crs_known) ==
    LET c == Coordinates(g, crs_known)
    IN  IF ~c.ok THEN c
        ELSE IF ~InMassachusetts(c.lat, c.lng) THEN Rejected("out_of_region")
        ELSE c

\* The body of the try of app.py:198-294 for one row of non_matching_df:
\* "emit" with the record, "raise" when a statement raises, or the skip taken.
Classify(row, all, crs_known, valid, codes_dict, nres) ==
    LET key == Str(row.LOC_ID)
        own == SelectSeq(all, LAMBDA r : r.LOC_ID = key)
    IN  IF Len(own) = 0 THEN Skip("no_geometry")
        ELSE LET g == own[1].geometry
             IN  IF g.kind = "none" THEN Skip("no_centroid")
                 ELSE IF g.kind = "empty" THEN Skip("raise")
                 ELSE LET n == Normalize(g, crs_known)
                      IN  IF ~n.ok THEN Skip(n.why)
                          ELSE Neighbors(row, all, g, valid, codes_dict,
                                         n.lat, n.lng, nres)

(***************************************************************************)
(* The inputs the model draws from.                                        *)
(***************************************************************************)
Point(x, y, ok, lat, lng) ==
    [kind |-> "point", x |-> x, y |-> y, wgs |-> [ok |-> ok, lat |-> lat, lng |-> lng]]
\* a point already in degrees
Geo(x, y) == Point(x, y, TRUE, y, x)
\* a row without geometry (None), and an empty geometry (centroid.x raises)
NoGeometry == [kind |-> "none", x |-> 0, y |-> 0, wgs |-> [ok |-> FALSE, lat |-> 0, lng |-> 0]]
EmptyGeometry == [kind |-> "empty", x |-> 0, y |-> 0, wgs |-> [ok |-> FALSE, lat |-> 0, lng |-> 0]]

Parcel(loc, geom) == [LOC_ID |-> loc, geometry |-> geom]
ParcelTable(crs, rows) == [crs |-> crs, has_loc_id |-> TRUE, rows |-> rows]

\* parcels in degrees; two rows share the key "2", one lies outside Massachusetts
ParcelsGeographic ==
    ParcelTable(TRUE, <<Parcel(IntV(1), Geo(-71, 42)),
                        Parcel(IntV(2), Geo(-70, 42)),
                        Parcel(StrV(<<"2">>), Geo(-72, 41)),
                        Parcel(IntV(3), Geo(-75, 42))>>)

\* projected parcels: 1 and 2 are 100 apart, 3 is far away and reprojects outside
\* Massachusetts, and a second row with the key "1" lies 50 from the first
ParcelsProjected ==
    ParcelTable(TRUE, <<Parcel(IntV(1), Point(1200, 2000, TRUE, 42, -71)),
                        Parcel(IntV(2), Point(1260, 2080, TRUE, 42, -71)),
                        Parcel(IntV(3), Point(1500, 2000, TRUE, 44, -71)),
                        Parcel(StrV(<<"1">>), Point(1200, 2050, TRUE, 42, -71))>>)

\* a layer without CRS: 1 is projected, 2 is in degrees, 3 has no parcel
ParcelsNoCrs ==
    ParcelTable(FALSE, <<Parcel(IntV(1), Point(1200, 2000, TRUE, 42, -71)),
                         Parcel(IntV(2), Geo(-71, 42))>>)

\* 1 has an empty geometry; 2 and 3 are neighbours
ParcelsEmptyGeometry ==
    ParcelTable(TRUE, <<Parcel(IntV(1), EmptyGeometry),
                        Parcel(IntV(2), Geo(-71, 42)),
                        Parcel(IntV(3), Geo(-70, 42)),
                        Parcel(StrV(<<"3">>), NoGeometry)>>)

\* 1 has no geometry, the reprojection of 2 raises, 3 has no neighbour but itself
ParcelsDegenerate ==
    ParcelTable(TRUE, <<Parcel(IntV(1), NoGeometry),
                        Parcel(IntV(2), Point(1200, 2000, FALSE, 0, 0)),
                        Parcel(IntV(3), Geo(-71, 42)),
                        Parcel(StrV(<<"3">>), Geo(-70, 42))>>)

\* a parcel layer without the LOC_ID column
ParcelsNoLocId == [crs |-> TRUE, has_loc_id |-> FALSE, rows |-> <<>>]

ParcelTables ==
    {ParcelsGeographic, ParcelsProjected, ParcelsNoCrs, ParcelsEmptyGeometry,
     ParcelsDegenerate, ParcelsNoLocId}

LocIds == {IntV(1), IntV(2), IntV(3)}
UseCodes == {IntV(101), StrV(<<"1", "0", "2", "7">>), IntV(999)}

AssessRows ==
    {[LOC_ID |-> l, PROP_ID |-> IntV(10 + l.n), USE_CODE |-> u] : l \in LocIds, u \in UseCodes}

AssessTables(n) == [1..n -> AssessRows]

L_Assess == <<"A", "s", "s", "e", "s", "s">>
L_TaxPar == <<"T", "a", "x", "P", "a", "r">>
L_PARCEL == <<"P", "A", "R", "C", "E", "L">>
L_Misc   == <<"M", "i", "s", "c">>

UsualLayers == <<L_Assess, L_TaxPar>>
OtherLayers == {<<L_PARCEL, L_Misc, L_Assess>>, <<L_TaxPar, L_Assess, L_PARCEL>>}
BadLayers == {<<>>, <<L_Misc, L_TaxPar>>, <<L_Assess, L_Misc>>}

\* the assessment tables whose records all lie on parcel 1
SmallAssessTables ==
    UNION {[1..n -> {r \in AssessRows : r.LOC_ID = IntV(1)}] : n \in 0..MaxAssess}

EmptyGdb == [layers |-> <<>>, assess |-> <<>>, parcels |-> ParcelsNoLocId]

\* The tables of a geodatabase without the two layers are never read.
SmallGdbs ==
    {[layers |-> l, assess |-> a, parcels |-> p] :
        l \in {UsualLayers} \cup OtherLayers, a \in SmallAssessTables, p \in ParcelTables}
    \cup {[EmptyGdb EXCEPT !.layers = l] : l \in BadLayers}

Gdb(a, p) == [layers |-> UsualLayers, assess |-> a, parcels |-> p]

CsvMissing == [readable |-> FALSE, rows |-> <<>>]
CsvInt ==
    [readable |-> TRUE,
     rows |-> <<[code |-> IntV(101), desc |-> "Single Family"],
                [code |-> IntV(102), desc |-> "Two Family"]>>]
CsvStr ==
    [readable |-> TRUE,
     rows |-> <<[code |-> StrV(<<"1", "0", "1">>), desc |-> "Single Family"],
                [code |-> StrV(<<"1", "0", "2", "7">>), desc |-> "Two Family Annex"]>>]
Csvs == {CsvMissing, CsvInt, CsvStr}

(***************************************************************************)
(* analyze_gdb and perform_spatial_analysis as a state machine.            *)
(***************************************************************************)
NoReturn == [kind |-> "none", error |-> "", summary |-> <<>>]
Raised(msg) == [kind |-> "raise", error |-> msg, summary |-> <<>>]

\* app.py:141
high_confidence_count(props) ==
    Cardinality({k \in DOMAIN props :
                    props[k].confidence.num * 10 > 7 * props[k].confidence.den})

\* app.py:141-152: the summary, or ZeroDivisionError at app.py:150
Summary(g, c, props) ==
    IF total_properties(g) = 0 THEN Raised("division by zero")
    ELSE [kind |-> "return", error |-> "",
          summary |->
              [success               |-> TRUE,
               total_properties      |-> total_properties(g),
               non_matching_count    |-> non_matching_count(g, c),
               analyzed_count        |-> Len(props),
               high_confidence_count |-> high_confidence_count(props),
               properties            |-> props,
               match_percentage      |->
                   [num |-> (total_properties(g) - non_matching_count(g, c)) * 100,
                    den |-> total_properties(g)]]]

PhaseAfter(r) == IF r.kind = "raise" THEN "failed" ELSE "returned"

Init ==
    /\ processing_progress = [current |-> 0, total |-> 0, status |-> "idle"]
    /\ phase = "idle"
    /\ gdb = EmptyGdb
    /\ csv = CsvMissing
    /\ non_matching_sample = <<>>
    /\ all_parcels_gdf = <<>>
    /\ count = 0
    /\ results = <<>>
    /\ outcomes = <<>>
    /\ ret = NoReturn
    /\ cleaned_df = <<>>

\* app.py:103-106
LayerError(g) ==
    IF assessment_layer(g.layers) = NoLayer THEN "No assessment layer found"
    ELSE IF parcel_layer(g.layers) = NoLayer THEN "No parcel layer found"
    ELSE ""

\* analyze_gdb up to the loop of perform_spatial_analysis (app.py:82-138, 161-186)
AnalyzeGdb(g, c) ==
    /\ phase = "idle"
    /\ gdb' = g
    /\ csv' = c
    /\ count' = 0
    /\ results' = <<>>
    /\ outcomes' = <<>>
    /\ UNCHANGED cleaned_df
    /\ LET err == LayerError(g)
           nm  == non_matching_df(g, c)
       IN  IF err # ""
           THEN /\ ret' = Raised(err)
                /\ phase' = "failed"
                /\ UNCHANGED <<processing_progress, non_matching_sample, all_parcels_gdf>>
           ELSE IF Len(nm) = 0 \/ JoinFails(g)
           THEN /\ ret' = Summary(g, c, <<>>)
                /\ phase' = PhaseAfter(Summary(g, c, <<>>))
                /\ UNCHANGED <<processing_progress, non_matching_sample, all_parcels_gdf>>
           ELSE /\ ret' = NoReturn
                /\ phase' = "spatial"
                /\ non_matching_sample' = nm
                /\ all_parcels_gdf' = SpatialJoin(g)
                /\ processing_progress' =
                       [processing_progress EXCEPT !.total = Len(nm),
                                                   !.status = "processing"]

\* the exception of one property leaves the loop
AfterProperty_uncaught(o, res) ==
    [results |-> IF o.kind = "emit" THEN Append(res, o.rec) ELSE res,
     escaped |-> o.kind = "raise"]

\* app.py:292-294: an exception of one property is caught and the loop goes on
AfterProperty(o, res) ==
    [results |-> IF o.kind = "emit" THEN Append(res, o.rec) ELSE res,
     escaped |-> FALSE]

\* one iteration of the loop of app.py:188-294
ProcessProperty ==
    /\ phase = "spatial"
    /\ count < Len(non_matching_sample)
    /\ LET idx == non_matching_sample[count + 1]
           cd  == load_classification_codes(csv)
           o   == Classify(assessment_df(gdb)[idx], all_parcels_gdf,
                           gdb.parcels.crs, DOMAIN cd, cd, Len(results))
           a   == AfterProperty(o, results)
       IN  /\ count' = count + 1
           /\ processing_progress' = [processing_progress EXCEPT !.current = count + 1]
           /\ outcomes' = Append(outcomes, [idx |-> idx, kind |-> o.kind, rec |-> o.rec])
           /\ IF a.escaped
              THEN \* the except of app.py:303: perform_spatial_analysis returns []
                   /\ results' = <<>>
                   /\ ret' = Summary(gdb, csv, <<>>)
                   /\ phase' = PhaseAfter(Summary(gdb, csv, <<>>))
              ELSE /\ results' = a.results
                   /\ UNCHANGED <<ret, phase>>
    /\ UNCHANGED <<gdb, csv, non_matching_sample, all_parcels_gdf, cleaned_df>>

\* the end of the loop (app.py:296-301) and the summary (app.py:141-152)
FinishAnalysis ==
    /\ phase = "spatial"
    /\ count = Len(non_matching_sample)
    /\ processing_progress' = [processing_progress EXCEPT !.status = "complete"]
    /\ ret' = Summary(gdb, csv, results)
    /\ phase' = PhaseAfter(Summary(gdb, csv, results))
    /\ UNCHANGED <<gdb, csv, non_matching_sample, all_parcels_gdf, count, results, outcomes,
                   cleaned_df>>

\* app.py:353-356: PROP_ID to suggested code, a later record replacing an earlier one
suggestions_map(props) ==
    [p \in {props[k].prop_id : k \in DOMAIN props} |->
        props[SetMax({k \in DOMAIN props : props[k].prop_id = p})].suggested_code]

\* app.py:361-364: every row whose str(PROP_ID) is a key of the map gets its code
ReplaceUseCodes(df, map) ==
    [k \in DOMAIN df |->
        IF Str(df[k].PROP_ID) \in DOMAIN map
        THEN [df[k] EXCEPT !.USE_CODE = map[Str(df[k].PROP_ID)]]
        ELSE df[k]]

\* upload_file after analyze_gdb has returned (app.py:339-389): the cleaned copy of
\* results['assessment_data'], the table of app.py:122
WriteCleaned ==
    /\ phase = "returned"
    /\ phase' = "written"
    /\ cleaned_df' = ReplaceUseCodes(assessment_df(gdb),
                                     suggestions_map(ret.summary.properties))
    /\ UNCHANGED <<processing_progress, gdb, csv, non_matching_sample, all_parcels_gdf,
                   count, results, outcomes, ret>>

\* upload_file answers the request (app.py:391, 396-399): the run's locals are gone
Respond ==
    /\ phase \in {"written", "failed"}
    /\ phase' = "idle"
    /\ gdb' = EmptyGdb
    /\ csv' = CsvMissing
    /\ non_matching_sample' = <<>>
    /\ all_parcels_gdf' = <<>>
    /\ count' = 0
    /\ results' = <<>>
    /\ outcomes' = <<>>
    /\ ret' = NoReturn
    /\ cleaned_df' = <<>>
    /\ UNCHANGED processing_progress

\* A request arrives while no run is in flight: any assessment table, with the
\* usual layers and the integer code table.  Progress depends on the data only
\* through the counts and the failures, so the runs that follow a run with spatial
\* analysis are those of UploadSmall.
Upload ==
    /\ phase = "idle"
    /\ processing_progress.status = "idle"
    /\ \E n \in 0..MaxAssess : \E a \in AssessTables(n) : \E p \in ParcelTables :
          AnalyzeGdb(Gdb(a, p), CsvInt)

\* A request arrives while no run is in flight: a small assessment table, with any
\* list of layers and any code table.
UploadSmall ==
    /\ phase = "idle"
    /\ \E g \in SmallGdbs, c \in Csvs : AnalyzeGdb(g, c)

Next ==
    \/ Upload
    \/ UploadSmall
    \/ ProcessProperty
    \/ FinishAnalysis
    \/ WriteCleaned
    \/ Respond

Spec == Init /\ [][Next]_vars

(***************************************************************************)
(* What the claims speak of, stated on the inputs of the run.              *)
(***************************************************************************)
\* the keys of the reference table
RefKeys == IF csv.readable THEN {Str(csv.rows[k].code) : k \in DOMAIN csv.rows} ELSE {}

\* the joined rows of the run
Joined == all_parcels_gdf

\* the location key of the property of the j-th loop iteration
SubjectKey(j) == Str(gdb.assess[outcomes[j].idx].LOC_ID)

\* the joined rows that carry the subject's location key
OwnRows(j) == {r \in DOMAIN Joined : Joined[r].LOC_ID = SubjectKey(j)}

\* the geometry the subject is located by: that of its first joined row
HasPoint(j) == OwnRows(j) # {} /\ Joined[SetMin(OwnRows(j))].geometry.kind = "point"
SubjectGeom(j) == Joined[SetMin(OwnRows(j))].geometry

\* the joined rows within 100 units of the subject
InBuffer(j) ==
    IF ~HasPoint(j) THEN {}
    ELSE LET g == SubjectGeom(j)
         IN  {r \in DOMAIN Joined :
                 /\ Joined[r].geometry.kind = "point"
                 /\ (Joined[r].geometry.x - g.x) * (Joined[r].geometry.x - g.x)
                    + (Joined[r].geometry.y - g.y) * (Joined[r].geometry.y - g.y)
                    <= 10000}

\* the buffer neighbours of the subject other than itself, and those with a valid code
NeighborRows(j) == InBuffer(j) \ OwnRows(j)
ValidNeighborRows(j) ==
    LET keys == RefKeys IN {r \in NeighborRows(j) : Joined[r].USE_CODE \in keys}

\* an independent tally over a set of joined rows
VotesIn(rows, code) == Cardinality({r \in rows : Joined[r].USE_CODE = code})
FirstSeenIn(rows, code) == SetMin({r \in rows : Joined[r].USE_CODE = code})
Votes(j, code) == VotesIn(ValidNeighborRows(j), code)

Emitted == {j \in DOMAIN outcomes : outcomes[j].kind = "emit"}

\* the loop iterations that got as far as the neighbourhood query
Queried ==
    {j \in DOMAIN outcomes :
        outcomes[j].kind \in {"emit", "no_neighbors", "no_valid_neighbors"}}

ValidRecord(rec) ==
    /\ rec.suggested_code \in RefKeys
    /\ 0 < rec.confidence.num
    /\ rec.confidence.num <= rec.confidence.den

(***************************************************************************)
(* C1: every SuggestionRecord has a suggested_code in valid_codes and a    *)
(* confidence in (0, 1]; a property whose buffer neighbours other than    *)
(* itself all carry codes outside valid_codes yields no record and is not  *)
(* counted in analyzed_count.                                              *)
(***************************************************************************)
C1_SuggestionValid ==
    /\ \A k \in DOMAIN results : ValidRecord(results[k])
    /\ \A j \in DOMAIN outcomes :
          ValidNeighborRows(j) = {} => outcomes[j].kind # "emit"
    /\ phase = "returned" =>
          /\ \A k \in DOMAIN ret.summary.properties :
                ValidRecord(ret.summary.properties[k])
          /\ ret.summary.analyzed_count = Cardinality(Emitted)

\* a run returned one record, and skipped a property whose neighbours were all invalid
C1_Witness ==
    /\ phase = "returned"
    /\ ret.summary.analyzed_count = 1
    /\ \E j \in DOMAIN outcomes :
          /\ NeighborRows(j) # {}
          /\ ValidNeighborRows(j) = {}
          /\ outcomes[j].kind = "no_valid_neighbors"

(***************************************************************************)
(* C2: the suggested code is the code with the highest count among the     *)
(* subject's valid-code neighbours by an independent tally; among codes    *)
(* tied for the highest count it is the one met first in the iteration     *)
(* order of those neighbours; confidence is its count over their number.   *)
(***************************************************************************)
C2_Plurality ==
    \A j \in Emitted :
        LET rec == outcomes[j].rec
            c   == rec.suggested_code
            nv  == ValidNeighborRows(j)
        IN  /\ VotesIn(nv, c) > 0
            /\ \A r \in nv :
                  LET d == Joined[r].USE_CODE
                  IN  \/ VotesIn(nv, d) < VotesIn(nv, c)
                      \/ /\ VotesIn(nv, d) = VotesIn(nv, c)
                         /\ FirstSeenIn(nv, c) <= FirstSeenIn(nv, d)
            /\ rec.confidence.num = VotesIn(nv, c)
            /\ rec.confidence.den = Cardinality(nv)

\* a record chosen between two tied codes, the winner being the code that comes
\* second in the reference table but first among the neighbours
C2_Witness ==
    \E j \in Emitted :
        /\ outcomes[j].rec.suggested_code = <<"1", "0", "2">>
        /\ Votes(j, <<"1", "0", "1">>) = Votes(j, <<"1", "0", "2">>)

(***************************************************************************)
(* C3: no joined row with the subject's location key is counted among its  *)
(* neighbours, neither in nearby_count nor in the vote, also when several  *)
(* joined rows share that key.                                             *)
(***************************************************************************)
C3_SelfExclusion ==
    \A j \in Queried :
        /\ outcomes[j].kind = "no_neighbors" <=> InBuffer(j) \ OwnRows(j) = {}
        /\ outcomes[j].kind = "emit" =>
              LET rec == outcomes[j].rec
                  others == {r \in InBuffer(j) : Joined[r].LOC_ID # rec.loc_id}
                  keys == RefKeys
              IN  /\ rec.nearby_count = Cardinality(others)
                  /\ rec.confidence.den =
                        Cardinality({r \in others : Joined[r].USE_CODE \in keys})
                  /\ rec.confidence.num =
                        Cardinality({r \in others : Joined[r].USE_CODE = rec.suggested_code})

\* a record for a subject whose key is carried by several joined rows in its own
\* buffer, one of them with a valid code
C3_Witness ==
    \E j \in Emitted :
        /\ Cardinality(OwnRows(j) \cap InBuffer(j)) >= 2
        /\ \E r \in OwnRows(j) \cap InBuffer(j) : Joined[r].USE_CODE \in RefKeys

(***************************************************************************)
(* C4: every change of processing_progress['status'] is idle to            *)
(* processing or processing to complete, over any sequence of runs.        *)
(***************************************************************************)
C4_StatusStateMachine ==
    [][processing_progress'.status # processing_progress.status =>
          \/ /\ processing_progress.status = "idle"
             /\ processing_progress'.status = "processing"
          \/ /\ processing_progress.status = "processing"
             /\ processing_progress'.status = "complete"]_vars

(***************************************************************************)
(* C5: whenever analyze_gdb returns a summary, the progress snapshot has   *)
(* status 'complete' and current = total = non_matching_count of that run. *)
(***************************************************************************)
C5_ProgressFinalized ==
    phase = "returned" =>
        /\ processing_progress.status = "complete"
        /\ processing_progress.current = processing_progress.total
        /\ processing_progress.total = ret.summary.non_matching_count

(***************************************************************************)
(* C6: match_percentage is 100 x (total - non_matching) / total when       *)
(* total > 0, and a run on zero assessment records returns a summary with  *)
(* non_matching_count 0 and match_percentage 0.                            *)
(***************************************************************************)
C6_MatchPercentage ==
    /\ (phase = "returned" /\ ret.summary.total_properties > 0) =>
          ret.summary.match_percentage.num * ret.summary.total_properties
              = 100 * (ret.summary.total_properties - ret.summary.non_matching_count)
                    * ret.summary.match_percentage.den
    /\ (phase \in {"returned", "failed"} /\ LayerError(gdb) = "" /\ Len(gdb.assess) = 0) =>
          /\ phase = "returned"
          /\ ret.summary.non_matching_count = 0
          /\ ret.summary.match_percentage.num = 0

First3(s) == [k \in 1..(IF Len(s) < 3 THEN Len(s) ELSE 3) |-> s[k]]

NonMatchingRows == {k \in DOMAIN gdb.assess : First3(Str(gdb.assess[k].USE_CODE)) \notin RefKeys}

(***************************************************************************)
(* C7: a record is non-matching exactly when the first 3 characters of its *)
(* stringified use code are not a key of the reference table;              *)
(* non_matching_count is the number of such records, and equals            *)
(* total_properties when the reference table is empty.                     *)
(***************************************************************************)
C7_NonMatching ==
    /\ phase = "spatial" =>
          /\ {non_matching_sample[i] : i \in DOMAIN non_matching_sample} = NonMatchingRows
          /\ Len(non_matching_sample) = Cardinality(NonMatchingRows)
    /\ phase = "returned" =>
          /\ ret.summary.non_matching_count = Cardinality(NonMatchingRows)
          /\ RefKeys = {} => ret.summary.non_matching_count = ret.summary.total_properties

\* a run returned where a four-character code matches by its first three characters
\* and another record does not match
C7_Witness ==
    /\ phase = "returned"
    /\ csv = CsvInt
    /\ \E k \in DOMAIN gdb.assess :
          /\ Len(Str(gdb.assess[k].USE_CODE)) = 4
          /\ k \notin NonMatchingRows
    /\ ret.summary.non_matching_count > 0

\* the records of the loop run over the rows `batch` of the assessment table adf
RECURSIVE LoopOver(_, _, _, _, _)
LoopOver(batch, adf, cd, k, acc) ==
    IF k > Len(batch) THEN acc
    ELSE LET o == Classify(adf[batch[k]], all_parcels_gdf, gdb.parcels.crs,
                           DOMAIN cd, cd, Len(acc))
         IN  LoopOver(batch, adf, cd, k + 1,
                      IF o.kind = "emit" THEN Append(acc, o.rec) ELSE acc)

Raisers == {outcomes[j].idx : j \in {i \in DOMAIN outcomes : outcomes[i].kind = "raise"}}

(***************************************************************************)
(* C8: an exception while one property is classified does not abort the    *)
(* batch: every later property is processed and the records of the others  *)
(* are those of the batch without the failing property.                    *)
(***************************************************************************)
C8_FailureIsolation ==
    Raisers # {} =>
        /\ phase \in {"spatial", "returned", "written"}
        /\ results =
              LoopOver(SelectSeq(SubSeq(non_matching_sample, 1, Len(outcomes)),
                                 LAMBDA i : i \notin Raisers),
                       assessment_df(gdb), load_classification_codes(csv), 1, <<>>)
        /\ phase = "returned" =>
              /\ Len(outcomes) = Len(non_matching_sample)
              /\ ret.summary.properties = results

\* a run returned in which a property raised and a later one got its record
C8_Witness ==
    /\ phase = "returned"
    /\ \E i, j \in DOMAIN outcomes :
          i < j /\ outcomes[i].kind = "raise" /\ outcomes[j].kind = "emit"

Small(g) == -1000 <= g.x /\ g.x <= 1000 /\ -1000 <= g.y /\ g.y <= 1000
InBox(lat, lng) == 41 <= lat /\ lat <= 43 /\ -74 <= lng /\ lng <= -69

(***************************************************************************)
(* C9: a centroid with |x| <= 1000 and |y| <= 1000 is used as (lat = y,    *)
(* lng = x); a larger one is reprojected when the CRS is known and the     *)
(* property is skipped when it is not; no record lies outside              *)
(* 41 <= lat <= 43, -74 <= lng <= -69; a skipped property still counts in  *)
(* non_matching_count.                                                     *)
(***************************************************************************)
C9_Coordinates ==
    /\ \A j \in DOMAIN outcomes :
          LET point == HasPoint(j)
              g     == SubjectGeom(j)
              rec   == outcomes[j].rec
          IN  /\ outcomes[j].kind = "emit" =>
                    /\ point
                    /\ InBox(rec.lat, rec.lng)
                    /\ IF Small(g)
                       THEN rec.lat = g.y /\ rec.lng = g.x
                       ELSE /\ gdb.parcels.crs
                            /\ g.wgs.ok
                            /\ rec.lat = g.wgs.lat
                            /\ rec.lng = g.wgs.lng
              /\ (point /\ ~Small(g) /\ ~gdb.parcels.crs) => outcomes[j].kind = "no_crs"
    /\ \A k \in DOMAIN results : InBox(results[k].lat, results[k].lng)
    /\ (phase = "returned" /\ outcomes # <<>>) =>
          /\ ret.summary.non_matching_count = Len(outcomes)
          /\ \A k \in DOMAIN ret.summary.properties :
                InBox(ret.summary.properties[k].lat, ret.summary.properties[k].lng)

\* a run returned a reprojected record and skipped a property that reprojects
\* outside Massachusetts
C9_Witness ==
    /\ phase = "returned"
    /\ \E i, j \in DOMAIN outcomes :
          /\ outcomes[i].kind = "out_of_region"
          /\ ~Small(SubjectGeom(i))
          /\ outcomes[j].kind = "emit"
          /\ ~Small(SubjectGeom(j))
    /\ ret.summary.analyzed_count < ret.summary.non_matching_count

HasLayer(names, subs) ==
    \E k \in DOMAIN names : \E sub \in subs : Contains(sub, Lower(names[k]))

LayerErrors == {"No assessment layer found", "No parcel layer found"}

(***************************************************************************)
(* C10: without a layer whose name contains 'assess', or one whose name    *)
(* contains 'taxpar' or 'parcel' (case-insensitively), analyze_gdb raises, *)
(* returns no summary and leaves the progress as it was; otherwise both    *)
(* layers are identified and the run proceeds.                             *)
(***************************************************************************)
C10_LayerPrecondition ==
    [][(phase = "idle" /\ phase' # "idle") =>
          IF HasLayer(gdb'.layers, {S_assess}) /\ HasLayer(gdb'.layers, {S_taxpar, S_parcel})
          THEN /\ ret'.error \notin LayerErrors
               /\ HasLayer(<<assessment_layer(gdb'.layers)>>, {S_assess})
               /\ HasLayer(<<parcel_layer(gdb'.layers)>>, {S_taxpar, S_parcel})
          ELSE /\ phase' = "failed"
               /\ ret'.kind = "raise"
               /\ ret'.error \in LayerErrors
               /\ ret'.summary = <<>>
               /\ processing_progress' = processing_progress]_vars

\* the run failed for want of a parcel layer, after an earlier run had completed
C10_Witness ==
    /\ phase = "failed"
    /\ ret.error = "No parcel layer found"
    /\ processing_progress.status = "complete"

(***************************************************************************)
(* C11: in every state a poller of /progress can read, over any sequence   *)
(* of runs, 0 <= current <= total, and while a run is in its loop current  *)
(* never decreases: no stale current of an earlier run is visible together *)
(* with the total of a later run.                                          *)
(***************************************************************************)
C11_CountersBounded ==
    /\ [](/\ 0 <= processing_progress.current
          /\ processing_progress.current <= processing_progress.total)
    /\ [][phase = "spatial" =>
              processing_progress'.current >= processing_progress.current]_vars

(***************************************************************************)
(* C12: in the cleaned dataset of upload_file a row's USE_CODE differs     *)
(* from the raw dataset only if the row was non-matching and a record was  *)
(* emitted for it, and then it is that record's suggested_code, a valid    *)
(* code; every matching row and every non-matching row without a           *)
(* suggestion is unchanged, also when several rows share a PROP_ID.        *)
(***************************************************************************)
C12_CleanedFrame ==
    phase = "written" =>
        /\ DOMAIN cleaned_df = DOMAIN gdb.assess
        /\ \A k \in DOMAIN gdb.assess :
              LET raw == First3(Str(gdb.assess[k].USE_CODE))
                  own == {j \in Emitted : outcomes[j].idx = k}
              IN  IF k \in NonMatchingRows /\ own # {}
                  THEN /\ cleaned_df[k].USE_CODE \in RefKeys
                       /\ \A j \in own :
                             cleaned_df[k].USE_CODE = outcomes[j].rec.suggested_code
                  ELSE cleaned_df[k].USE_CODE = raw
====
